---- MODULE Spec2Model ----
(***************************************************************************)
(* A model of the spin-resolved DOS pipeline of PyCASTEP:                  *)
(*   src/DOSParser/read_spin_dos.py  (extract_dos, dcenter, check_ab,      *)
(*                                    band_extract, parse_xcd, get_dos)    *)
(*   src/DOSParser/ReadDOS.py        (XcdFile.band_center)                 *)
(*                                                                         *)
(* Numbers.  Every coordinate of the model is a small integer, which a     *)
(* float64 holds exactly, so sums and products are exact.  np.trapz is     *)
(* carried as twice its value (trapz2) to stay in the integers; a band     *)
(* center is the quotient of two such integrals and is kept as a fraction  *)
(* n/d with d > 0, or as one of the IEEE specials the division yields when *)
(* d = 0.  Fractions are compared by cross multiplication.                 *)
(***************************************************************************)
EXTENDS Integers, Sequences, FiniteSets, TLC

VARIABLES
    doc,          \* parse_xcd: the document at _path
    ppc,          \* parse_xcd: "ready" | "returned" | "raised"
    total_df,     \* parse_xcd: the returned table (column name -> column)
    dcalls,       \* parse_xcd: the values dcenter returned, in call order
    dir,          \* get_dos: the directory _path, file name -> document
    gpc,          \* get_dos: "start" | "mapping" | "writing" | "done" | "raised"
    new_filelist, \* get_dos: the reordered file names
    key_list,     \* get_dos: the identifiers, suffix stripped
    results,      \* p_map: per planned position, "pending" or the outcome
    completion,   \* p_map: the positions in the order their workers ended
    collected,    \* p_map: how many results the caller has taken, in order
    dataframes,   \* get_dos: the list p_map returned
    written,      \* get_dos: how many tables the write loop has stored
    container     \* the .h5 file: [tables: key -> table, index: keys]

parseVars == <<doc, ppc, total_df, dcalls>>
batchVars == <<dir, gpc, new_filelist, key_list, results, completion,
               collected, dataframes, written, container>>
vars == <<doc, ppc, total_df, dcalls, dir, gpc, new_filelist, key_list,
          results, completion, collected, dataframes, written, container>>

----------------------------------------------------------------------------
(* Bounds of the input space *)

\* points per d series (and the longest s/p series)
MaxPts == 2

\* energies and raw intensities a point may carry
XVals == {0, 1}
YVals == {0 - 1, 0, 1}

Points == [x : XVals, y : YVals]

----------------------------------------------------------------------------
(* Sequence helpers *)

Neg(ys) == [i \in 1..Len(ys) |-> 0 - ys[i]]

Mul(ys, xs) == [i \in 1..Len(ys) |-> ys[i] * xs[i]]

Max2(a, b) == IF a >= b THEN a ELSE b

----------------------------------------------------------------------------
(* extract_dos: the 'e' accessor takes the first field of every point's    *)
(* XY attribute, the 'dos' accessor the second.                            *)

extract_dos(band, key) ==
    IF key = "e" THEN [i \in 1..Len(band) |-> band[i].x]
                 ELSE [i \in 1..Len(band) |-> band[i].y]

----------------------------------------------------------------------------
(* np.trapz(y, x) = sum over i of (x[i+1]-x[i]) * (y[i+1]+y[i]) / 2.       *)
(* trapz2 is twice that.  Fewer than two points integrate to 0.            *)

RECURSIVE trapz2from(_, _, _)
trapz2from(y, x, i) ==
    IF i >= Len(y) THEN 0
    ELSE (x[i + 1] - x[i]) * (y[i + 1] + y[i]) + trapz2from(y, x, i + 1)

trapz2(y, x) == trapz2from(y, x, 1)

(* IEEE results of pEdE / pdE *)
NaN == [k |-> "nan", n |-> 0, d |-> 0]
PosInf == [k |-> "inf", n |-> 1, d |-> 0]
NegInf == [k |-> "inf", n |-> 0 - 1, d |-> 0]
Raised == [k |-> "raise", n |-> 0, d |-> 0]

Frac(n, d) == IF d > 0 THEN [k |-> "num", n |-> n, d |-> d]
                       ELSE [k |-> "num", n |-> 0 - n, d |-> 0 - d]

(* a center that raises on a zero denominator instead of dividing *)
dcenterRaising(x, y) ==
    LET pdE == trapz2(y, x)
        pEdE == trapz2(Mul(y, x), x)
    IN  IF pdE # 0 THEN {Frac(pEdE, pdE)} ELSE {Raised}

(* dcenter: the set of values the division can yield.  numpy divides       *)
(* float64 by zero without raising: 0/0 is NaN, and a nonzero numerator    *)
(* over zero is an infinity whose sign is that of the numerator times that *)
(* of the zero.  The sign of a zero sum depends on how the numpy build     *)
(* accumulates (and on the -0.0 that 0*-1 leaves in a beta column), so     *)
(* both infinities are outcomes.                                           *)
dcenter(x, y) ==
    LET pdE == trapz2(y, x)
        pEdE == trapz2(Mul(y, x), x)
    IN  IF pdE # 0 THEN {Frac(pEdE, pdE)}
        ELSE IF pEdE = 0 THEN {NaN}
        ELSE {PosInf, NegInf}

(* a < b, the comparison turned around *)
Lt(a, b) ==
    IF a.k = "nan" \/ b.k = "nan" THEN FALSE
    ELSE IF b.k = "inf" /\ b.n > 0 THEN ~(a.k = "inf" /\ a.n > 0)
    ELSE IF b.k = "inf" THEN FALSE
    ELSE IF a.k = "inf" THEN a.n < 0
    ELSE a.n * b.d < b.n * a.d

(* a >= b *)
GtOrEqual(a, b) ==
    IF a.k = "nan" \/ b.k = "nan" THEN FALSE
    ELSE IF a.k = "inf" /\ a.n > 0 THEN TRUE
    ELSE IF a.k = "inf" THEN b.k = "inf" /\ b.n < 0
    ELSE IF b.k = "inf" THEN b.n < 0
    ELSE a.n * b.d >= b.n * a.d

(* a > b on float64 values: false whenever either side is NaN *)
Gt(a, b) ==
    IF a.k = "nan" \/ b.k = "nan" THEN FALSE
    ELSE IF a.k = "inf" /\ a.n > 0 THEN ~(b.k = "inf" /\ b.n > 0)
    ELSE IF a.k = "inf" THEN FALSE
    ELSE IF b.k = "inf" THEN b.n < 0
    ELSE a.n * b.d > b.n * a.d

(* check_ab: the pairs (dc_alpha, dc_beta, dc_alpha > dc_beta) it can      *)
(* compute.  y_b is the d_beta column of DOS, already multiplied by -1.    *)
check_ab(alpha, beta) ==
    { <<dc_alpha, dc_beta, Gt(dc_alpha, dc_beta)>> :
        dc_alpha \in dcenter(alpha.dE_alpha, alpha.d_alpha),
        dc_beta \in dcenter(beta.dE_beta, beta.d_beta) }

(* XcdFile.band_center: rejects a band name outside s, p, d, f; otherwise   *)
(* the same quotient, with numpy's invalid-operation warning switched off. *)
band_center(band, bands) ==
    IF band \notin {"s", "p", "d", "f"} THEN {Raised}
    ELSE LET x == extract_dos(bands[band], "e")
             y == extract_dos(bands[band], "dos")
             pdE == trapz2(y, x)
             pEdE == trapz2(Mul(y, x), x)
         IN  IF pdE # 0 THEN {Frac(pEdE, pdE)}
             ELSE IF pEdE = 0 THEN {NaN}
             ELSE {PosInf, NegInf}

----------------------------------------------------------------------------
(* band_extract: the SERIES_2D elements in document order, labelled by     *)
(* position.  With a count other than 4 or 6 neither branch assigns        *)
(* d_band_exists and the return statement raises UnboundLocalError.        *)

band_extract(series) ==
    IF Len(series) = 4 THEN
        [ok |-> TRUE, d_band_exists |-> FALSE,
         bands |-> [s_alpha |-> series[1], s_beta |-> series[2],
                    p_alpha |-> series[3], p_beta |-> series[4]]]
    ELSE IF Len(series) = 6 THEN
        [ok |-> TRUE, d_band_exists |-> TRUE,
         bands |-> [s_alpha |-> series[1], s_beta |-> series[2],
                    p_alpha |-> series[3], p_beta |-> series[4],
                    d_alpha |-> series[5], d_beta |-> series[6]]]
    ELSE [ok |-> FALSE, d_band_exists |-> FALSE, bands |-> <<>>]

(* the s and p entries with the -1 of p_beta left out *)
DOS_sp_p_beta_unsigned(bands) ==
    [s_alpha |-> [sE_alpha |-> extract_dos(bands.s_alpha, "e"),
                  s_alpha |-> extract_dos(bands.s_alpha, "dos")],
     s_beta |-> [sE_beta |-> extract_dos(bands.s_beta, "e"),
                 s_beta |-> Neg(extract_dos(bands.s_beta, "dos"))],
     p_alpha |-> [pE_alpha |-> extract_dos(bands.p_alpha, "e"),
                  p_alpha |-> extract_dos(bands.p_alpha, "dos")],
     p_beta |-> [pE_beta |-> extract_dos(bands.p_beta, "e"),
                 p_beta |-> extract_dos(bands.p_beta, "dos")]]

(* the s and p entries of DOS, the same in both branches of parse_xcd *)
DOS_sp(bands) ==
    [s_alpha |-> [sE_alpha |-> extract_dos(bands.s_alpha, "e"),
                  s_alpha |-> extract_dos(bands.s_alpha, "dos")],
     s_beta |-> [sE_beta |-> extract_dos(bands.s_beta, "e"),
                 s_beta |-> Neg(extract_dos(bands.s_beta, "dos"))],
     p_alpha |-> [pE_alpha |-> extract_dos(bands.p_alpha, "e"),
                  p_alpha |-> extract_dos(bands.p_alpha, "dos")],
     p_beta |-> [pE_beta |-> extract_dos(bands.p_beta, "e"),
                 p_beta |-> Neg(extract_dos(bands.p_beta, "dos"))]]

(* the d entries of DOS as first built *)
DOS_d(bands) ==
    [d_alpha |-> [dE_alpha |-> extract_dos(bands.d_alpha, "e"),
                  d_alpha |-> extract_dos(bands.d_alpha, "dos")],
     d_beta |-> [dE_beta |-> extract_dos(bands.d_beta, "e"),
                 d_beta |-> Neg(extract_dos(bands.d_beta, "dos"))]]

(* the d entries of DOS as reassigned when check_ab is true *)
DOS_d_swapped(bands) ==
    [d_alpha |-> [dE_alpha |-> extract_dos(bands.d_beta, "e"),
                  d_alpha |-> Neg(extract_dos(bands.d_beta, "dos"))],
     d_beta |-> [dE_beta |-> extract_dos(bands.d_alpha, "e"),
                 d_beta |-> extract_dos(bands.d_alpha, "dos")]]

(* pd.concat(axis=1) of the per-key frames: the columns side by side on    *)
(* the union of the row indexes; a column shorter than the longest is      *)
(* filled with NaN.  A column is kept as its values v and the number nan   *)
(* of NaN rows that follow them.                                           *)
RECURSIVE MaxLen(_, _)
MaxLen(DOS, keys) ==
    IF keys = {} THEN 0
    ELSE LET key == CHOOSE k \in keys : TRUE
             c == CHOOSE c \in DOMAIN DOS[key] : TRUE
         IN  Max2(Len(DOS[key][c]), MaxLen(DOS, keys \ {key}))

concat(DOS) ==
    LET rows == MaxLen(DOS, DOMAIN DOS)
        columns == UNION {DOMAIN DOS[key] : key \in DOMAIN DOS}
        keyOf(c) == CHOOSE key \in DOMAIN DOS : c \in DOMAIN DOS[key]
    IN  [c \in columns |->
            [v |-> DOS[keyOf(c)][c], nan |-> rows - Len(DOS[keyOf(c)][c])]]

NoTable == <<>>

(* parse_xcd: every outcome of parsing and reconciling one document.       *)
(* ET.parse raises on a document that is not well formed.                  *)
parse_xcd(d) ==
    IF ~d.wellformed THEN
        {[status |-> "raised", table |-> NoTable, dcalls |-> <<>>]}
    ELSE
    LET be == band_extract(d.series) IN
    IF ~be.ok THEN
        {[status |-> "raised", table |-> NoTable, dcalls |-> <<>>]}
    ELSE IF ~be.d_band_exists THEN
        {[status |-> "returned", table |-> concat(DOS_sp(be.bands)),
          dcalls |-> <<>>]}
    ELSE
    LET DOS == DOS_sp(be.bands) @@ DOS_d(be.bands) IN
        { IF r[1].k = "raise" THEN
              [status |-> "raised", table |-> NoTable, dcalls |-> <<>>]
          ELSE IF r[2].k = "raise" THEN
              [status |-> "raised", table |-> NoTable, dcalls |-> <<r[1]>>]
          ELSE IF r[3] THEN
              [status |-> "returned",
               table |-> concat(DOS_sp(be.bands) @@ DOS_d_swapped(be.bands)),
               dcalls |-> <<r[1], r[2]>>]
          ELSE
              [status |-> "returned", table |-> concat(DOS),
               dcalls |-> <<r[1], r[2]>>]
          : r \in check_ab(DOS.d_alpha, DOS.d_beta) }

----------------------------------------------------------------------------
(* Documents *)

DCurves == [1..MaxPts -> Points]

(* s/p series: ramps of n points, distinct per position i; the raw beta    *)
(* series (even i) carry the sign sg.                                      *)
SPSeries(i, n, sg) ==
    [j \in 1..n |-> [x |-> j - 1,
                     y |-> (IF i % 2 = 0 THEN sg ELSE 1) * (i + j - 1)]]

SPBlocks ==
    { <<SPSeries(1, ns, sg), SPSeries(2, ns, sg),
        SPSeries(3, np, sg), SPSeries(4, np, sg)>> :
        ns \in 1..MaxPts, np \in 1..MaxPts, sg \in {0 - 1, 1} }

(* beside a d pair: the s series shorter than the d series, the p series   *)
(* as long                                                                 *)
SPBlocks6 == {b \in SPBlocks : Len(b[1]) = 1 /\ Len(b[3]) = MaxPts}

(* an unparseable document; 4 series; 5 series; 6 series *)
Docs ==
    {[wellformed |-> FALSE, series |-> <<>>]}
    \cup {[wellformed |-> TRUE, series |-> b] : b \in SPBlocks}
    \cup {[wellformed |-> TRUE, series |-> b \o <<da>>] :
            b \in SPBlocks6, da \in DCurves}
    \cup {[wellformed |-> TRUE, series |-> b \o <<da, db>>] :
            b \in SPBlocks6, da \in DCurves, db \in DCurves}

EmptyContainer == [tables |-> <<>>, index |-> <<>>, has_index |-> FALSE]

(* get_dos not running *)
BatchIdle ==
    /\ dir = <<>>
    /\ gpc = "idle"
    /\ new_filelist = <<>>
    /\ key_list = <<>>
    /\ results = <<>>
    /\ completion = <<>>
    /\ collected = 0
    /\ dataframes = <<>>
    /\ written = 0
    /\ container = EmptyContainer

(* parse_xcd not running *)
ParseIdle ==
    /\ doc = [wellformed |-> FALSE, series |-> <<>>]
    /\ ppc = "idle"
    /\ total_df = NoTable
    /\ dcalls = <<>>

----------------------------------------------------------------------------
(* The per-file pipeline *)

InitParse ==
    /\ doc \in Docs
    /\ ppc = "ready"
    /\ total_df = NoTable
    /\ dcalls = <<>>
    /\ BatchIdle

ParseXcd ==
    /\ ppc = "ready"
    /\ \E o \in parse_xcd(doc) :
        /\ ppc' = o.status
        /\ total_df' = o.table
        /\ dcalls' = o.dcalls
    /\ UNCHANGED doc
    /\ UNCHANGED batchVars

NextParse == ParseXcd

SpecParse == InitParse /\ [][NextParse]_vars

----------------------------------------------------------------------------
(* File names.  A name stands for the string pre ++ "_" ++ tag ++ suffix,  *)
(* pre a fixed-width number, so that strings sort by pre and then by tag.  *)
(* As strings "" < "bulk" < "subsurface" < "surface".                      *)

Tags == {"", "bulk", "subsurface", "surface"}

TagRank(t) ==
    CASE t = "" -> 0
      [] t = "bulk" -> 1
      [] t = "subsurface" -> 2
      [] t = "surface" -> 3

Name(p, t) == [pre |-> p, tag |-> t, suffix |-> "_PDOS.xcd"]

(* a < b as Python compares the two strings *)
NameLess(a, b) ==
    \/ a.pre < b.pre
    \/ a.pre = b.pre /\ TagRank(a.tag) < TagRank(b.tag)

(* marker in name: 'surface' is also found inside 'subsurface' *)
Contains(name, marker) ==
    CASE marker = "bulk" -> name.tag = "bulk"
      [] marker = "subsurface" -> name.tag = "subsurface"
      [] marker = "surface" -> name.tag \in {"surface", "subsurface"}

(* item.replace('_PDOS.xcd', '') *)
StripSuffix(name) ==
    IF name.suffix = "_PDOS.xcd" THEN [name EXCEPT !.suffix = ""] ELSE name

----------------------------------------------------------------------------
(* List helpers *)

Range(seq) == {seq[i] : i \in 1..Len(seq)}

(* list.sort() of distinct names *)
RECURSIVE SortAsc(_)
SortAsc(S) ==
    IF S = {} THEN <<>>
    ELSE LET m == CHOOSE a \in S : \A b \in S \ {a} : NameLess(a, b)
         IN  <<m>> \o SortAsc(S \ {m})

(* list.sort(reverse=True) *)
RECURSIVE SortDescSet(_)
SortDescSet(S) ==
    IF S = {} THEN <<>>
    ELSE LET m == CHOOSE a \in S : \A b \in S \ {a} : NameLess(b, a)
         IN  <<m>> \o SortDescSet(S \ {m})

SortDesc(seq) == SortDescSet(Range(seq))

(* seq[:n] and seq[n:] *)
Head_(seq, n) == SubSeq(seq, 1, IF n < Len(seq) THEN n ELSE Len(seq))
Tail_(seq, n) == SubSeq(seq, n + 1, Len(seq))

(* seq[start::step] *)
Stride(seq, start, step) ==
    LET count == IF Len(seq) <= start THEN 0
                 ELSE (Len(seq) - start + step - 1) \div step
    IN  [i \in 1..count |-> seq[start + 1 + (i - 1) * step]]

(* a list of rows flattened row by row: ndarray.flatten, chain.from_iterable *)
RECURSIVE Flatten(_)
Flatten(rows) ==
    IF rows = <<>> THEN <<>> ELSE Head(rows) \o Flatten(Tail(rows))

----------------------------------------------------------------------------
(* The sequence planner: lines 133-159 of get_dos.  filelist[1] raises     *)
(* IndexError on fewer than two entries.                                   *)

Layout(filelist) ==
    IF Contains(filelist[2], "subsurface") /\ Contains(filelist[1], "bulk")
    THEN "surface+subsurface"
    ELSE IF Contains(filelist[2], "surface") THEN "surface"
    ELSE "bulk"

(* the surface+subsurface branch with each step emitted as it is listed *)
PlanSubsurfaceListed(filelist) ==
    LET compressive == SortDesc(Head_(filelist, 12))
        tensile == Tail_(filelist, 12)
        sf == Stride(tensile, 2, 3)
        subsf == Stride(tensile, 1, 3)
        bk == Stride(tensile, 0, 3)
        new_ten == [i \in 1..Len(sf) |-> <<bk[i], subsf[i], sf[i]>>]
    IN  compressive \o Flatten(new_ten)

(* the surface+subsurface branch *)
PlanSubsurface(filelist) ==
    LET compressive == SortDesc(Head_(filelist, 12))
        tensile == Tail_(filelist, 12)
        sf == Stride(tensile, 2, 3)
        subsf == Stride(tensile, 1, 3)
        bk == Stride(tensile, 0, 3)
        new_ten == [i \in 1..Len(sf) |-> <<sf[i], subsf[i], bk[i]>>]
    IN  compressive \o Flatten(new_ten)

(* the surface branch: zip stops at the shorter of sf and bk *)
PlanSurface(filelist) ==
    LET compressive == SortDesc(Head_(filelist, 8))
        tensile == Tail_(filelist, 8)
        sf == Stride(tensile, 1, 2)
        bk == Stride(tensile, 0, 2)
        pairs == IF Len(sf) < Len(bk) THEN Len(sf) ELSE Len(bk)
        new_ten == [i \in 1..pairs |-> <<sf[i], bk[i]>>]
    IN  compressive \o Flatten(new_ten)

(* the bulk branch with the compressive set left ascending *)
PlanBulkAscending(filelist) ==
    LET compressive == Head_(filelist, 4)
        tensile == Tail_(filelist, 4)
    IN  compressive \o tensile

(* the bulk branch *)
PlanBulk(filelist) ==
    LET compressive == SortDesc(Head_(filelist, 4))
        tensile == Tail_(filelist, 4)
    IN  compressive \o tensile

Plan(listing) ==
    LET filelist == SortAsc(listing) IN
    IF Len(filelist) < 2 THEN [ok |-> FALSE, new_filelist |-> <<>>]
    ELSE [ok |-> TRUE,
          new_filelist |->
            CASE Layout(filelist) = "surface+subsurface" ->
                    PlanSubsurface(filelist)
              [] Layout(filelist) = "surface" -> PlanSurface(filelist)
              [] Layout(filelist) = "bulk" -> PlanBulk(filelist)]

----------------------------------------------------------------------------
(* get_dos: plan, map parse_xcd over the planned paths in a worker pool,   *)
(* write every table, write the index.                                     *)

Pending == [status |-> "pending", table |-> NoTable, dcalls |-> <<>>]

(* lines 133-162, up to the call of p_map *)
GetDosPlan ==
    /\ gpc = "start"
    /\ LET pl == Plan(DOMAIN dir) IN
         IF ~pl.ok THEN
            /\ gpc' = "raised"
            /\ UNCHANGED <<new_filelist, key_list, results>>
         ELSE
            /\ gpc' = "mapping"
            /\ new_filelist' = pl.new_filelist
            /\ key_list' = [i \in 1..Len(pl.new_filelist) |->
                              StripSuffix(pl.new_filelist[i])]
            /\ results' = [i \in 1..Len(pl.new_filelist) |-> Pending]
    /\ UNCHANGED <<dir, completion, collected, dataframes, written, container>>
    /\ UNCHANGED parseVars

(* a pool worker runs parse_xcd on the path at planned position i *)
Worker(i) ==
    /\ gpc = "mapping"
    /\ results[i] = Pending
    /\ \E o \in parse_xcd(dir[new_filelist[i]]) :
         results' = [results EXCEPT ![i] = o]
    /\ completion' = Append(completion, i)
    /\ UNCHANGED <<dir, gpc, new_filelist, key_list, collected, dataframes,
                   written, container>>
    /\ UNCHANGED parseVars

(* a failure the map swallows instead of re-raising *)
ReRaisesNever(o) == FALSE

(* p_map re-raises in the caller the exception of a worker *)
ReRaises(o) == o.status = "raised"

(* results handed out in the order the workers ended *)
p_map_unordered(res, done) == [i \in 1..Len(res) |-> res[done[i]].table]

(* the list p_map returns: the result of item i at position i *)
p_map(res, done) == [i \in 1..Len(res) |-> res[i].table]

(* p_map takes the results in input order, waiting for each *)
Collect ==
    /\ gpc = "mapping"
    /\ collected < Len(results)
    /\ results[collected + 1] # Pending
    /\ IF ReRaises(results[collected + 1]) THEN
            /\ gpc' = "raised"
            /\ UNCHANGED <<collected, dataframes>>
       ELSE IF collected + 1 = Len(results) THEN
            /\ gpc' = "writing"
            /\ collected' = collected + 1
            /\ dataframes' = p_map(results, completion)
       ELSE
            /\ collected' = collected + 1
            /\ UNCHANGED <<gpc, dataframes>>
    /\ UNCHANGED <<dir, new_filelist, key_list, results, completion, written,
                   container>>
    /\ UNCHANGED parseVars

(* one turn of the loop of lines 164-165: item.to_hdf(file, key) *)
WriteTable ==
    /\ gpc = "writing"
    /\ written < Len(key_list)
    /\ LET key == key_list[written + 1]
           item == dataframes[written + 1]
           old == container.tables
       IN  container' =
             [container EXCEPT !.tables =
                [k \in DOMAIN old \cup {key} |->
                    IF k = key THEN item ELSE old[k]]]
    /\ written' = written + 1
    /\ UNCHANGED <<dir, gpc, new_filelist, key_list, results, completion,
                   collected, dataframes>>
    /\ UNCHANGED parseVars

(* lines 166-168: the index is written last *)
WriteIndex ==
    /\ gpc = "writing"
    /\ written = Len(key_list)
    /\ container' = [container EXCEPT !.index = key_list, !.has_index = TRUE]
    /\ gpc' = "done"
    /\ UNCHANGED <<dir, new_filelist, key_list, results, completion,
                   collected, dataframes, written>>
    /\ UNCHANGED parseVars

----------------------------------------------------------------------------
(* Directories *)

\* the most files a directory of the planner's input space holds
MaxFiles == 18

\* the most files a directory of a batch run holds
MaxBatchFiles == 3

Grid(T) == {Name(p, t) : p \in 1..MaxFiles, t \in T}

(* the n first names of the grid over the tags T *)
FirstNames(T, n) ==
    {nm \in Grid(T) : Cardinality({m \in Grid(T) : NameLess(m, nm)}) < n}

(* complete listings and listings with one file missing *)
PlanListings ==
    UNION { {FirstNames(T, n)} \cup {FirstNames(T, n) \ {x} : x \in FirstNames(T, n)} :
              T \in (SUBSET Tags) \ {{}}, n \in 0..MaxFiles }

Placeholder == [wellformed |-> TRUE, series |-> <<>>]

InitPlan ==
    /\ \E listing \in PlanListings : dir = [nm \in listing |-> Placeholder]
    /\ gpc = "start"
    /\ new_filelist = <<>>
    /\ key_list = <<>>
    /\ results = <<>>
    /\ completion = <<>>
    /\ collected = 0
    /\ dataframes = <<>>
    /\ written = 0
    /\ container = EmptyContainer
    /\ ParseIdle

NextPlan == GetDosPlan

SpecPlan == InitPlan /\ [][NextPlan]_vars

(* documents of a batch: unparseable, 5 series, 4 series, 6 series with a  *)
(* d pair that is swapped, 6 series with a flat zero d_alpha               *)
DocBad == [wellformed |-> FALSE, series |-> <<>>]
Doc4 == [wellformed |-> TRUE,
         series |-> <<SPSeries(1, 1, 1), SPSeries(2, 1, 1),
                      SPSeries(3, MaxPts, 1), SPSeries(4, MaxPts, 1)>>]
Doc5 == [Doc4 EXCEPT !.series = @ \o <<SPSeries(5, MaxPts, 1)>>]
Doc6 == [Doc4 EXCEPT !.series =
            @ \o <<SPSeries(1, MaxPts, 1), SPSeries(5, MaxPts, 1)>>]
Doc6Flat == [Doc4 EXCEPT !.series =
                @ \o <<[j \in 1..MaxPts |-> [x |-> j - 1, y |-> 0]],
                       SPSeries(1, MaxPts, 1)>>]

BatchDocs == {DocBad, Doc5, Doc4, Doc6, Doc6Flat}

BatchNames == FirstNames({"bulk", "surface"}, MaxBatchFiles)

InitBatch ==
    /\ \E listing \in SUBSET BatchNames : dir \in [listing -> BatchDocs]
    /\ gpc = "start"
    /\ new_filelist = <<>>
    /\ key_list = <<>>
    /\ results = <<>>
    /\ completion = <<>>
    /\ collected = 0
    /\ dataframes = <<>>
    /\ written = 0
    /\ container = EmptyContainer
    /\ ParseIdle

NextBatch ==
    \/ GetDosPlan
    \/ \E i \in 1..Len(results) : Worker(i)
    \/ Collect
    \/ WriteTable
    \/ WriteIndex

SpecBatch == InitBatch /\ [][NextBatch]_vars

----------------------------------------------------------------------------
(* Properties of the per-file pipeline (SpecParse).  Raw series are        *)
(* numbered as in the document: 1..4 are s_alpha, s_beta, p_alpha, p_beta, *)
(* 5 is the raw d_alpha (position 4) and 6 the raw d_beta (position 5).    *)

RawE(i) == [j \in 1..Len(doc.series[i]) |-> doc.series[i][j].x]
RawI(i) == [j \in 1..Len(doc.series[i]) |-> doc.series[i][j].y]

(* the integrals of the raw curve i and its center where it is defined *)
Den(i) == trapz2(RawI(i), RawE(i))
Numer(i) == trapz2(Mul(RawI(i), RawE(i)), RawE(i))
CenterDefined(i) == Den(i) # 0
Center(i) == Frac(Numer(i), Den(i))
CenterLess(i, j) == Center(i).n * Center(j).d < Center(j).n * Center(i).d
CenterEqual(i, j) == Center(i).n * Center(j).d = Center(j).n * Center(i).d

Col(c) == total_df[c].v

(* the column pair (ec, ic) carries raw curve i, whatever its sign *)
FromSeries(ec, ic, i) ==
    /\ Col(ec) = RawE(i)
    /\ Col(ic) = RawI(i) \/ Col(ic) = Neg(RawI(i))

Returned6 == ppc = "returned" /\ Len(doc.series) = 6
Returned4 == ppc = "returned" /\ Len(doc.series) = 4

SourceOrder ==
    /\ FromSeries("dE_alpha", "d_alpha", 5)
    /\ FromSeries("dE_beta", "d_beta", 6)
SwappedOrder ==
    /\ FromSeries("dE_alpha", "d_alpha", 6)
    /\ FromSeries("dE_beta", "d_beta", 5)

C2_BetaNegatedAlphaNot ==
    ppc = "returned" =>
        /\ Col("s_alpha") = RawI(1) /\ Col("s_beta") = Neg(RawI(2))
        /\ Col("p_alpha") = RawI(3) /\ Col("p_beta") = Neg(RawI(4))
        /\ Len(doc.series) = 6 =>
            \E a \in {5, 6} :
                /\ Col("dE_alpha") = RawE(a) /\ Col("d_alpha") = RawI(a)
                /\ Col("dE_beta") = RawE(11 - a)
                /\ Col("d_beta") = Neg(RawI(11 - a))

NonFinite(r) == r.k \in {"nan", "inf"}

C7_FourSeries ==
    (ppc # "ready" /\ doc.wellformed /\ Len(doc.series) = 4) =>
        /\ ppc = "returned"
        /\ dcalls = <<>>
        /\ DOMAIN total_df = {"sE_alpha", "s_alpha", "sE_beta", "s_beta",
                              "pE_alpha", "p_alpha", "pE_beta", "p_beta"}
        /\ Col("sE_alpha") = RawE(1) /\ Col("s_alpha") = RawI(1)
        /\ Col("sE_beta") = RawE(2) /\ Col("s_beta") = Neg(RawI(2))
        /\ Col("pE_alpha") = RawE(3) /\ Col("p_alpha") = RawI(3)
        /\ Col("pE_beta") = RawE(4) /\ Col("p_beta") = Neg(RawI(4))

C7_Witness ==
    /\ Returned4
    /\ Len(doc.series[1]) < Len(doc.series[3])
    /\ total_df["s_beta"].nan > 0
    /\ Col("p_beta") # RawI(4)

----------------------------------------------------------------------------
(* Properties of the sequence planner (SpecPlan) *)

Sorted == SortAsc(DOMAIN dir)
NFiles == Cardinality(DOMAIN dir)
Min2(a, b) == IF a <= b THEN a ELSE b

(* C3 as stated: for every listing the planner accepts, in any of the      *)
(* three layouts and of any size, the reordered list is a permutation of   *)
(* the sorted listing (nothing dropped, nothing duplicated) and the        *)
(* identifier list is as long as the listing.                              *)
C3_PlanIsPermutation ==
    gpc = "mapping" =>
        /\ Len(new_filelist) = NFiles
        /\ Range(new_filelist) = DOMAIN dir
        /\ Len(key_list) = NFiles

(* C8: in the bulk-only layout (no name carries surface or subsurface) the *)
(* output is the first 4 sorted entries in reverse order followed by the   *)
(* remaining entries in sorted order.                                      *)
C8_BulkOnlyOrder ==
    (gpc = "mapping" /\ \A nm \in DOMAIN dir : nm.tag \in {"", "bulk"}) =>
        LET c == Min2(4, NFiles) IN
        /\ Len(new_filelist) = NFiles
        /\ \A i \in 1..NFiles :
             new_filelist[i] = IF i <= c THEN Sorted[c + 1 - i] ELSE Sorted[i]

C8_Witness ==
    /\ gpc = "mapping"
    /\ \A nm \in DOMAIN dir : nm.tag \in {"", "bulk"}
    /\ NFiles >= 6
    /\ new_filelist[1] = Sorted[4]
    /\ new_filelist[6] = Sorted[6]

(* C10: in the surface+subsurface layout the output is the first 12 sorted *)
(* entries in reverse order, followed for each step i by the remaining     *)
(* entries at offsets 3i+2 (surface), 3i+1 (subsurface) and 3i (bulk), in  *)
(* that order, step i wholly before step i+1.  A step is three entries:    *)
(* the steps are those i with offset 3i+2 inside the remaining entries.    *)
C10_SubsurfaceOrder ==
    (gpc = "mapping" /\ Sorted[1].tag = "bulk" /\ Sorted[2].tag = "subsurface")
    =>  LET c == Min2(12, NFiles)
            steps == (NFiles - c) \div 3
        IN
        /\ Len(new_filelist) = c + 3 * steps
        /\ \A i \in 1..c : new_filelist[i] = Sorted[c + 1 - i]
        /\ \A i \in 0..(steps - 1) :
            /\ new_filelist[c + 3 * i + 1] = Sorted[c + 3 * i + 2 + 1]
            /\ new_filelist[c + 3 * i + 2] = Sorted[c + 3 * i + 1 + 1]
            /\ new_filelist[c + 3 * i + 3] = Sorted[c + 3 * i + 1]

C10_Witness ==
    /\ gpc = "mapping"
    /\ Sorted[1].tag = "bulk" /\ Sorted[2].tag = "subsurface"
    /\ NFiles >= 18
    /\ new_filelist[1] = Sorted[12]
    /\ new_filelist[13].tag = "surface"
    /\ new_filelist[16].tag = "surface"
    /\ new_filelist[13].pre < new_filelist[16].pre

----------------------------------------------------------------------------
(* Properties of a batch run (SpecBatch) *)

(* the pipeline of the file at planned position i fails *)
Fails(i) ==
    \A o \in parse_xcd(dir[new_filelist[i]]) : o.status = "raised"

Planned == 1..Len(new_filelist)

(* C4: every write to the container, a table or the index, happens only    *)
(* after the parse/reconcile of every planned file has ended successfully; *)
(* if the pipeline of any planned file fails, the run never reaches the    *)
(* write loop and the container stays empty, and until it has aborted the  *)
(* run is not stuck: a worker is still to end or a result is ready to be   *)
(* taken.  An unparseable document and a series count other than 4 or 6    *)
(* are such failures.                                                      *)
C4_WritesAfterAllParsed ==
    /\ (container # EmptyContainer \/ gpc \in {"writing", "done"}) =>
            \A i \in Planned : results[i].status = "returned"
    /\ (gpc # "start" /\ \E i \in Planned : Fails(i)) =>
            /\ container = EmptyContainer
            /\ gpc \in {"mapping", "raised"}
            /\ gpc = "mapping" =>
                 \/ \E j \in Planned : results[j] = Pending
                 \/ collected < Len(results) /\ results[collected + 1] # Pending
    /\ gpc = "raised" => container = EmptyContainer
    /\ \A i \in Planned :
          LET d == dir[new_filelist[i]] IN
          (~d.wellformed \/ Len(d.series) \notin {4, 6}) => Fails(i)

C4_Witness ==
    /\ gpc = "raised"
    /\ Len(new_filelist) >= 2
    /\ results[1].status = "returned"
    /\ \E i \in Planned : results[i].status = "raised"
    /\ container = EmptyContainer

(* C5: whatever the order in which the workers end, the index written to   *)
(* the container is the identifier list in the planner's order, and the    *)
(* table stored under the identifier at planned position i is the          *)
(* reconciled table of the file at planned position i.                     *)
C5_PlannedOrderKept ==
    LET planned == Plan(DOMAIN dir).new_filelist IN
    /\ container.has_index =>
          /\ gpc = "done"
          /\ container.index =
                [i \in 1..Len(planned) |-> StripSuffix(planned[i])]
          /\ DOMAIN container.tables = Range(container.index)
    /\ \A i \in 1..written :
          \E o \in parse_xcd(dir[planned[i]]) :
              /\ o.status = "returned"
              /\ container.tables[StripSuffix(planned[i])] = o.table

C5_Witness ==
    /\ gpc = "done"
    /\ Len(key_list) >= 3
    /\ completion[1] = 3 /\ completion[2] = 1
    /\ container.tables[key_list[1]] # container.tables[key_list[3]]
    /\ new_filelist # Sorted

====
